---- MODULE Spec2Model ----
(***************************************************************************)
(* pc_listener.py: an MQTT listener that maps a light level (percent) to   *)
(* per-monitor brightness and contrast and writes them over DDC/CI.        *)
(*                                                                         *)
(* Two threads are modelled: "main" (startup reload, then the MQTT event   *)
(* loop that runs on_message / apply_settings) and "watcher" (the watchdog *)
(* observer thread that runs ConfigFileHandler.on_modified /               *)
(* reload_config).  They share monitor_configs, last_values and            *)
(* _config_lock.                                                           *)
(*                                                                         *)
(* Specifications: Spec (both threads, every interleaving), SpecApply (the *)
(* event loop with atomic reloads, every payload), SpecDevices (SpecApply  *)
(* with the displays' registers in the state), SpecWatch (Spec with the    *)
(* observer's notifications counted), SpecMap (the mapper alone).          *)
(***************************************************************************)
EXTENDS Integers, Sequences, FiniteSets, TLC

\* ------------------------------------------------------------------ bounds

\* Largest number of monitors get_monitors() returns under SpecApply.
MaxMonitors == 3

\* Largest number of monitors get_monitors() returns under Spec, where every
\* step of apply_settings interleaves with every step of reload_config.
MaxMonitorsInterleaved == 2

\* Largest device value of the ranges the sweep of the mapper goes through.
MaxRangeValue == 12

\* Largest number of monitors get_monitors() returns under SpecDevices, where
\* the registers of every display are part of the state.
MaxMonitorsDevices == 2

\* Largest number of monitors get_monitors() returns under SpecWatch.
MaxMonitorsWatch == 1

\* ------------------------------------------------------- small arithmetic

Min2(a, b) == IF a <= b THEN a ELSE b

Max2(a, b) == IF a >= b THEN a ELSE b

RECURSIVE Pow(_, _)
Pow(b, k) == IF k = 0 THEN 1 ELSE b * Pow(b, k - 1)

\* Python's round() on a float: to the nearest integer, ties to the even one.
\* The argument is the exact quotient num/den, den > 0.
RoundHalfEven(num, den) ==
    LET q == num \div den
        r == num - q * den
    IN  IF 2 * r < den THEN q
        ELSE IF 2 * r > den THEN q + 1
        ELSE IF q % 2 = 0 THEN q ELSE q + 1

\* ------------------------------------------------------------ data model

\* ValueRange(min, max, power=1.0).  power is a whole exponent in the model
\* (0, 1 or 2), so that light_level/100 ** power is an exact rational.
ValueRange(mn, mx, pw) == [min |-> mn, max |-> mx, power |-> pw]

MonitorConfig(nm, b, c) == [name |-> nm, brightness |-> b, contrast |-> c]

\* ----------------------------------------------------------------- Mapper

\* A mapping that converts with int() alone and drops the fraction.
percent_to_monitor_value_trunc(min_val, max_val, light_level, power) ==
    (min_val * Pow(100, power) + Pow(light_level, power) * (max_val - min_val))
        \div Pow(100, power)

\* A mapping that takes the level for an 8-bit brightness: level / 255.
percent_to_monitor_value_255(min_val, max_val, light_level, power) ==
    RoundHalfEven(min_val * Pow(255, power)
                    + Pow(light_level, power) * (max_val - min_val),
                  Pow(255, power))

\* percent_to_monitor_value: normalized = light_level / 100.0,
\* curved = normalized ** power, scaled = min + curved * (max - min),
\* int(round(scaled)).  No clamp here: the result leaves [min, max] when
\* light_level is outside [0, 100].  For the configured ranges and the
\* delivered levels the double-precision computation gives the same integer
\* as the exact one; the sweep of SpecMap, which meets the other cases, goes
\* through MapOutcomes.
percent_to_monitor_value(min_val, max_val, light_level, power) ==
    RoundHalfEven(min_val * Pow(100, power)
                    + Pow(light_level, power) * (max_val - min_val),
                  Pow(100, power))

\* The exact value of scaled lies halfway between two integers.
IsTie(min_val, max_val, light_level, power) ==
    LET den == Pow(100, power)
        num == min_val * den + Pow(light_level, power) * (max_val - min_val)
    IN  2 * (num - (num \div den) * den) = den

\* light_level / 100.0 is exact in binary floating point: a multiple of 1/4.
NormalizedExact(light_level) == light_level % 25 = 0

\* The integers the double-precision computation can return.  Away from a
\* tie the rounding error of scaled (about 1e-14) cannot carry it across the
\* half; at a tie it can, to either neighbour, unless normalized is exact and
\* with it every intermediate value.
MapOutcomes(min_val, max_val, light_level, power) ==
    LET den == Pow(100, power)
        num == min_val * den + Pow(light_level, power) * (max_val - min_val)
        q == num \div den
    IN  IF IsTie(min_val, max_val, light_level, power) /\ ~NormalizedExact(light_level)
        THEN {q, q + 1}
        ELSE {percent_to_monitor_value(min_val, max_val, light_level, power)}

\* A clamp that only bounds the value from above.
ClampUpper(lo, hi, raw) == Min2(hi, raw)

\* max(lo, min(hi, raw)) as apply_settings writes it for both controls.
Clamp(lo, hi, raw) == Max2(lo, Min2(hi, raw))

\* The target apply_settings computes for one control of one monitor.
Target(range, light_level) ==
    Clamp(range.min, range.max,
          percent_to_monitor_value(range.min, range.max, light_level, range.power))

\* ------------------------------------------------- config.yaml, load_config

\* What open() + yaml.safe_load() give for a content of config.yaml: io is
\* "ok" (data is the parsed mapping), "oserror" (the file cannot be opened)
\* or "yamlerror" (the text does not parse).  A YAML mapping is a record whose
\* domain is the set of keys present.
RangeA == [min |-> 3, max |-> 100]

RangeB == [min |-> 60, max |-> 92, power |-> 1]

RangeC == [min |-> 0, max |-> 50, power |-> 2]

RangeD == [min |-> 40, max |-> 60]

RangeInverted == [min |-> 80, max |-> 20]

RangeNoMax == [min |-> 10]

EntryLeft == [name |-> "Left", brightness |-> RangeA, contrast |-> RangeB]

EntryRight == [name |-> "Right", brightness |-> RangeC, contrast |-> RangeD]

EntryUnnamed == [brightness |-> RangeInverted, contrast |-> RangeD]

FileOne == [io |-> "ok", data |-> [monitors |-> <<EntryLeft>>]]

FileTwo == [io |-> "ok", data |-> [monitors |-> <<EntryLeft, EntryRight>>]]

FileInverted == [io |-> "ok", data |-> [monitors |-> <<EntryUnnamed>>]]

FileEmptyList == [io |-> "ok", data |-> [monitors |-> <<>>]]

FileNoMonitors == [io |-> "ok", data |-> [lights |-> <<>>]]

FileNoContrast ==
    [io |-> "ok", data |-> [monitors |-> <<EntryLeft, [brightness |-> RangeA]>>]]

FileNoMax ==
    [io |-> "ok",
     data |-> [monitors |-> <<[brightness |-> RangeNoMax, contrast |-> RangeB]>>]]

FileUnreadable == [io |-> "oserror", data |-> [lights |-> <<>>]]

FileGarbled == [io |-> "yamlerror", data |-> [lights |-> <<>>]]

ConfigFiles ==
    {FileOne, FileTwo, FileInverted, FileEmptyList, FileNoMonitors,
     FileNoContrast, FileNoMax, FileUnreadable, FileGarbled}

\* The contents config.yaml takes under SpecApply: every snapshot that
\* ConfigFiles can install, and one content that fails to load.
ConfigFilesApply == {FileOne, FileTwo, FileInverted, FileEmptyList, FileNoMax}

\* ValueRange(**d): min and max are required, power defaults to 1.0, any
\* other keyword is a TypeError.
RangeOk(d) == {"min", "max"} \subseteq DOMAIN d /\ DOMAIN d \subseteq {"min", "max", "power"}

RangeOf(d) == ValueRange(d.min, d.max, IF "power" \in DOMAIN d THEN d.power ELSE 1)

\* One iteration of the loop of load_config: m["brightness"] and
\* m["contrast"] raise KeyError when absent, m.get("name", "Unknown") does not.
EntryOk(m) ==
    /\ "brightness" \in DOMAIN m
    /\ RangeOk(m.brightness)
    /\ "contrast" \in DOMAIN m
    /\ RangeOk(m.contrast)

EntryConfig(m) ==
    MonitorConfig(IF "name" \in DOMAIN m THEN m.name ELSE "Unknown",
                  RangeOf(m.brightness), RangeOf(m.contrast))

\* load_config(): ok = FALSE stands for any exception it raises (OSError,
\* YAMLError, KeyError, TypeError); configs is the list it returns.
load_config(f) ==
    IF /\ f.io = "ok"
       /\ "monitors" \in DOMAIN f.data
       /\ \A k \in 1..Len(f.data.monitors) : EntryOk(f.data.monitors[k])
    THEN [ok |-> TRUE,
          configs |-> [k \in 1..Len(f.data.monitors) |-> EntryConfig(f.data.monitors[k])]]
    ELSE [ok |-> FALSE, configs |-> <<>>]

\* ------------------------------------------------ payloads, int(decode())

\* A payload is a sequence of bytes.  The bytes used: "0".."9" are 48..57,
\* "+" 43, "-" 45, "." 46, "_" 95, "a".."c" 97..99, space 32, newline 10,
\* and 255, which no UTF-8 text contains.
PayloadFifty == <<53, 48>>

PayloadZero == <<48>>

PayloadMinusFive == <<45, 53>>

PayloadOverrange == <<49, 53, 48>>

PayloadPadded == <<32, 43, 53, 48, 10>>

PayloadAbc == <<97, 98, 99>>

PayloadEmpty == <<>>

PayloadFloat == <<53, 48, 46, 48>>

PayloadBadUtf8 == <<53, 255>>

Payloads ==
    {PayloadFifty, PayloadZero, PayloadMinusFive, PayloadOverrange,
     PayloadPadded, PayloadAbc, PayloadEmpty, PayloadFloat, PayloadBadUtf8}

\* The payloads that arrive under Spec.
PayloadsInterleaved == {PayloadFifty, PayloadOverrange, PayloadAbc, PayloadBadUtf8}

TOPIC_BRIGHTNESS == "homeassistant/light/brightness_pct"

TOPIC_REFRESH == "homeassistant/light/refresh"

\* The topics a message may arrive on: the subscribed one and any other.
Topics == {TOPIC_BRIGHTNESS, "homeassistant/light/color_temp_k"}

IsDigit(c) == c \in 48..57

IsSpace(c) == c \in {9, 10, 11, 12, 13, 32}

\* bytes.decode(): UnicodeDecodeError on a byte that is not UTF-8 text.
DecodeOk(bytes) == \A k \in 1..Len(bytes) : bytes[k] < 128

\* str.strip() as int() applies it.
RECURSIVE StripLeft(_)
StripLeft(s) == IF s # <<>> /\ IsSpace(Head(s)) THEN StripLeft(Tail(s)) ELSE s

RECURSIVE StripRight(_)
StripRight(s) ==
    IF s # <<>> /\ IsSpace(s[Len(s)]) THEN StripRight(SubSeq(s, 1, Len(s) - 1)) ELSE s

Strip(s) == StripRight(StripLeft(s))

\* The digits of an integer literal: digits, with single underscores between.
DigitsOk(s) ==
    /\ s # <<>>
    /\ IsDigit(s[1])
    /\ IsDigit(s[Len(s)])
    /\ \A k \in 1..Len(s) : IsDigit(s[k]) \/ s[k] = 95
    /\ \A k \in 1..(Len(s) - 1) : ~(s[k] = 95 /\ s[k + 1] = 95)

RECURSIVE DigitsValue(_, _)
DigitsValue(s, acc) ==
    IF s = <<>> THEN acc
    ELSE IF Head(s) = 95 THEN DigitsValue(Tail(s), acc)
    ELSE DigitsValue(Tail(s), 10 * acc + (Head(s) - 48))

Unsigned(s) == IF s # <<>> /\ Head(s) \in {43, 45} THEN Tail(s) ELSE s

\* int(text): ValueError unless text is an optionally signed integer literal.
IntOk(text) == DigitsOk(Unsigned(Strip(text)))

IntValue(text) ==
    LET t == Strip(text)
        v == DigitsValue(Unsigned(t), 0)
    IN  IF Head(t) = 45 THEN 0 - v ELSE v

\* A decoder that takes the leading digits and ignores the rest.
PayloadOkLenient(bytes) == bytes # <<>> /\ IsDigit(bytes[1])

\* int(msg.payload.decode()) does not raise ValueError or UnicodeDecodeError.
PayloadOk(bytes) == DecodeOk(bytes) /\ IntOk(bytes)

\* ------------------------------------------------------------------ state

Threads == {"main", "watcher"}

VARIABLES
    pc,               \* control point of each thread
    config_lock,      \* _config_lock: "free" or the thread holding it
    monitor_configs,  \* the global snapshot, a sequence of MonitorConfig
    last_values,      \* the debounce cache, shared by all monitors
    connected,        \* client.is_connected()
    new,              \* reload_config's local `new`, per thread
    msg,              \* the message on_message is handling
    light_level,      \* apply_settings' argument
    configs,          \* apply_settings' copy of the snapshot
    monitors,         \* how many monitors get_monitors() returned
    i,                \* loop index of apply_settings
    cfg,              \* the configuration resolved for monitor i
    brightness_dst,   \* target brightness for monitor i
    contrast_dst,     \* target contrast for monitor i
    changed,          \* apply_settings' local `changed`
    \* history, for stating properties
    events,           \* device operations on monitor i in this iteration
    resolved,         \* per monitor processed in this call: cfg and targets
    taken,            \* monitor_configs as it was when the copy was taken
    prev,             \* <<[level, n]>> of the previous apply_settings if it was
                      \* free of failures and no reload installed a snapshot
                      \* since it took its copy, else <<>>
    repeat,           \* this call repeats prev: same level, snapshot, monitors
    swapped,          \* a reload installed a snapshot since this call's copy
    wrote,            \* this call invoked set_luminance or set_contrast
    failed,           \* an open or a write failed in this call
    before,           \* monitor_configs when the running reload_config began
    returned,         \* the handler that returned in the last step, and how
    published,        \* refresh requests published in the last step
    \* the world around the process
    handles,          \* the monitors whose DDC/CI handle is open
    device,           \* the registers of each display, where they are tracked
    last_written,     \* per control, the value of the last successful write
    pending,          \* config.yaml notifications the observer has not dispatched
    mapped            \* a sweep of percent_to_monitor_value over the levels

vars ==
    <<pc, config_lock, monitor_configs, last_values, connected, new, msg,
      light_level, configs, monitors, i, cfg, brightness_dst, contrast_dst,
      changed, events, resolved, taken, prev, repeat, swapped, wrote, failed,
      before, returned, published, handles, device, last_written, pending,
      mapped>>

shared == <<config_lock, monitor_configs, last_values, connected>>

applyLocals ==
    <<light_level, configs, monitors, i, cfg, brightness_dst, contrast_dst, changed>>

applyHistory == <<events, resolved, taken, prev, repeat, swapped, wrote, failed>>

reloadLocals == <<new, before>>

displays == <<handles, device, last_written>>

NoSweep == [min |-> 0, max |-> 0, p |-> 0, value |-> 0, below |-> 0]

NoConfig == MonitorConfig("", ValueRange(0, 0, 1), ValueRange(0, 0, 1))

NoMessage == [payload |-> <<>>, topic |-> ""]

\* dict.get(key): <<>> stands for None, <<v>> for the stored value v.
EmptyCache == [brightness |-> <<>>, contrast |-> <<>>]

Goto(t, label) == pc' = [pc EXCEPT ![t] = label]

\* A step that returns from no handler and publishes nothing.
Quiet == returned' = "none" /\ published' = 0

\* The process ends when an exception leaves on_message: it leaves
\* client.loop_forever() and main() with it.
Alive == pc["main"] # "raised"

\* The control points of apply_settings after it has taken its copy.
AfterCopy == {"a_enum", "a_next", "a_open", "a_bri", "a_con", "a_close", "a_except"}

Init ==
    /\ pc = [main |-> "r_load", watcher |-> "off"]
    /\ config_lock = "free"
    /\ monitor_configs = <<>>
    /\ last_values = EmptyCache
    /\ connected = FALSE
    /\ new = [t \in Threads |-> <<>>]
    /\ msg = NoMessage
    /\ light_level = 0
    /\ configs = <<>>
    /\ monitors = 0
    /\ i = 0
    /\ cfg = NoConfig
    /\ brightness_dst = 0
    /\ contrast_dst = 0
    /\ changed = FALSE
    /\ events = <<>>
    /\ resolved = <<>>
    /\ taken = <<>>
    /\ prev = <<>>
    /\ repeat = FALSE
    /\ swapped = FALSE
    /\ wrote = FALSE
    /\ failed = FALSE
    /\ before = [t \in Threads |-> <<>>]
    /\ returned = "none"
    /\ published = 0
    /\ handles = {}
    /\ device = <<>>
    /\ last_written = EmptyCache
    /\ pending = 0
    /\ mapped = NoSweep

\* ----------------------------------------------------------- reload_config

\* Where reload_config returns to: main() goes on to connect, the observer
\* thread waits for the next event.
AfterReload(t) == IF t = "main" THEN "connect" ELSE "idle"

\* A reload_config that is never given the client.
HasClientNever(t) == FALSE

\* main() calls reload_config() with client=None; the handler passes its client.
HasClient(t) == t = "watcher"

\* What installing a snapshot does to the history of apply_settings.
SwapHistory ==
    /\ prev' = <<>>
    /\ swapped' = (pc["main"] \in AfterCopy)
    /\ repeat' = (repeat /\ pc["main"] \in AfterCopy)
    /\ UNCHANGED <<events, resolved, taken, wrote, failed>>

\* new = load_config(): reads the file as it is now (one of files); an
\* exception goes to the except clause.
ReloadLoad(t, files) ==
    /\ Alive
    /\ pc[t] = "r_load"
    /\ \E f \in files :
         LET res == load_config(f)
         IN  /\ new' = [new EXCEPT ![t] = res.configs]
             /\ Goto(t, IF res.ok THEN "r_lock" ELSE "r_except")
    /\ before' = [before EXCEPT ![t] = monitor_configs]
    /\ Quiet
    /\ UNCHANGED <<shared, msg, applyLocals, applyHistory>>
    /\ UNCHANGED <<displays, pending, mapped>>

\* with _config_lock: (acquire)
ReloadLock(t) ==
    /\ Alive
    /\ pc[t] = "r_lock"
    /\ config_lock = "free"
    /\ config_lock' = t
    /\ Goto(t, "r_swap")
    /\ Quiet
    /\ UNCHANGED <<monitor_configs, last_values, connected, msg, applyLocals,
                   applyHistory, reloadLocals>>
    /\ UNCHANGED <<displays, pending, mapped>>

\* A swap that also empties the debounce cache.
ReloadSwapResetCache(t) ==
    /\ Alive
    /\ pc[t] = "r_swap"
    /\ config_lock = t
    /\ monitor_configs' = new[t]
    /\ last_values' = EmptyCache
    /\ config_lock' = "free"
    /\ SwapHistory
    /\ before' = [before EXCEPT ![t] = <<>>]
    /\ Goto(t, "r_pub")
    /\ Quiet
    /\ UNCHANGED <<connected, new, msg, applyLocals, displays, pending, mapped>>

\* monitor_configs = new; the with block ends (release)
ReloadSwap(t) ==
    /\ Alive
    /\ pc[t] = "r_swap"
    /\ config_lock = t
    /\ monitor_configs' = new[t]
    /\ config_lock' = "free"
    /\ SwapHistory
    /\ before' = [before EXCEPT ![t] = <<>>]
    /\ Goto(t, "r_pub")
    /\ Quiet
    /\ UNCHANGED <<last_values, connected, new, msg, applyLocals>>
    /\ UNCHANGED <<displays, pending, mapped>>

\* if client and client.is_connected(): client.publish(TOPIC_REFRESH); return
ReloadPublish(t) ==
    /\ Alive
    /\ pc[t] = "r_pub"
    /\ published' = IF HasClient(t) /\ connected THEN 1 ELSE 0
    /\ returned' = "reload_ok"
    /\ new' = [new EXCEPT ![t] = <<>>]
    /\ Goto(t, AfterReload(t))
    /\ UNCHANGED <<shared, msg, applyLocals, applyHistory, before>>
    /\ UNCHANGED <<displays, pending, mapped>>

\* An except clause that falls back to an empty configuration.
ReloadExceptClear(t) ==
    /\ Alive
    /\ pc[t] = "r_except"
    /\ monitor_configs' = <<>>
    /\ returned' = "reload_failed"
    /\ published' = 0
    /\ new' = [new EXCEPT ![t] = <<>>]
    /\ before' = [before EXCEPT ![t] = <<>>]
    /\ Goto(t, AfterReload(t))
    /\ UNCHANGED <<config_lock, last_values, connected, msg, applyLocals, applyHistory>>
    /\ UNCHANGED <<displays, pending, mapped>>

\* except Exception: log.exception(...); return
ReloadExcept(t) ==
    /\ Alive
    /\ pc[t] = "r_except"
    /\ returned' = "reload_failed"
    /\ published' = 0
    /\ new' = [new EXCEPT ![t] = <<>>]
    /\ before' = [before EXCEPT ![t] = <<>>]
    /\ Goto(t, AfterReload(t))
    /\ UNCHANGED <<shared, msg, applyLocals, applyHistory>>
    /\ UNCHANGED <<displays, pending, mapped>>

\* The files the observer reports as modified in the script's directory.
WatchedNames == {"config.yaml", "pc_listener.log"}

\* How many config.yaml notifications the observer's queue holds in the model.
MaxPending == 1

\* config.yaml is written while the observer runs: one more notification
\* waits for the observer thread.
FileChanged ==
    /\ Alive
    /\ pc["watcher"] # "off"
    /\ pending < MaxPending
    /\ pending' = pending + 1
    /\ Quiet
    /\ UNCHANGED <<pc, shared, msg, applyLocals, applyHistory, reloadLocals,
                   displays, mapped>>

\* ConfigFileHandler.on_modified(event): reload_config(self.client) when the
\* changed file's base name is config.yaml, nothing otherwise.  The file
\* changes when the observer thread is idle, or the thread comes to a change
\* made earlier; how many changes wait is not part of the state.
OnModified ==
    /\ Alive
    /\ pc["watcher"] = "idle"
    /\ \E name \in WatchedNames :
         Goto("watcher", IF name = "config.yaml" THEN "r_load" ELSE "idle")
    /\ Quiet
    /\ UNCHANGED <<shared, msg, applyLocals, applyHistory, reloadLocals,
                   displays, pending, mapped>>

\* The observer thread, idle, takes the next config.yaml notification from
\* its queue and calls on_modified, which calls reload_config(self.client).
OnModifiedQueued ==
    /\ Alive
    /\ pc["watcher"] = "idle"
    /\ pending > 0
    /\ pending' = pending - 1
    /\ Goto("watcher", "r_load")
    /\ Quiet
    /\ UNCHANGED <<shared, msg, applyLocals, applyHistory, reloadLocals,
                   displays, mapped>>

\* on_modified for config.yaml with reload_config(self.client) run to its
\* end without the main thread taking a step in between.
OnModifiedReload(files) ==
    /\ Alive
    /\ pc["watcher"] = "idle"
    /\ config_lock = "free"
    /\ \E f \in files :
         LET res == load_config(f)
         IN  IF res.ok
             THEN /\ monitor_configs' = res.configs
                  /\ SwapHistory
                  /\ published' = IF connected THEN 1 ELSE 0
                  /\ returned' = "reload_ok"
             ELSE /\ returned' = "reload_failed"
                  /\ published' = 0
                  /\ UNCHANGED <<monitor_configs, applyHistory>>
    /\ UNCHANGED <<pc, config_lock, last_values, connected, msg, applyLocals,
                   reloadLocals>>
    /\ UNCHANGED <<displays, pending, mapped>>

\* ------------------------------------------------- main(), MQTT callbacks

\* client.connect(host) succeeds (the retry loop around it changes no state
\* of the model).
Connect ==
    /\ pc["main"] = "connect"
    /\ Goto("main", "observe")
    /\ Quiet
    /\ UNCHANGED <<shared, msg, applyLocals, applyHistory, reloadLocals>>
    /\ UNCHANGED <<displays, pending, mapped>>

\* observer.schedule(ConfigFileHandler(client), ...); observer.start();
\* client.loop_forever()
StartObserver ==
    /\ pc["main"] = "observe"
    /\ pc["watcher"] = "off"
    /\ pc' = [main |-> "loop", watcher |-> "idle"]
    /\ Quiet
    /\ UNCHANGED <<shared, msg, applyLocals, applyHistory, reloadLocals>>
    /\ UNCHANGED <<displays, pending, mapped>>

\* The reason codes a CONNACK carries in the model: 0 accepts the session.
ReasonCodes == {0, 135}

\* on_connect: a rejected connection returns early; an accepted one
\* subscribes and publishes one refresh request.
OnConnect ==
    /\ pc["main"] = "loop"
    /\ ~connected
    /\ \E reason_code \in ReasonCodes :
         /\ connected' = (reason_code = 0)
         /\ published' = IF reason_code = 0 THEN 1 ELSE 0
         /\ returned' = IF reason_code = 0 THEN "connected" ELSE "rejected"
    /\ UNCHANGED <<pc, config_lock, monitor_configs, last_values, msg,
                   applyLocals, applyHistory, reloadLocals>>
    /\ UNCHANGED <<displays, pending, mapped>>

\* on_disconnect: logs only; the session is gone.
OnDisconnect ==
    /\ pc["main"] = "loop"
    /\ connected
    /\ connected' = FALSE
    /\ returned' = "disconnected"
    /\ published' = 0
    /\ UNCHANGED <<pc, config_lock, monitor_configs, last_values, msg,
                   applyLocals, applyHistory, reloadLocals>>
    /\ UNCHANGED <<displays, pending, mapped>>

\* The event loop receives one of payloads on some topic and calls on_message.
Deliver(payloads) ==
    /\ pc["main"] = "loop"
    /\ connected
    /\ \E payload \in payloads, topic \in Topics :
         msg' = [payload |-> payload, topic |-> topic]
    /\ Goto("main", "on_message")
    /\ Quiet
    /\ UNCHANGED <<shared, applyLocals, applyHistory, reloadLocals>>
    /\ UNCHANGED <<displays, pending, mapped>>

\* on_message: value = int(msg.payload.decode()); a ValueError or
\* UnicodeDecodeError is logged and the message dropped; a message on
\* TOPIC_BRIGHTNESS calls apply_settings(value), any other topic is ignored.
OnMessage ==
    /\ pc["main"] = "on_message"
    /\ IF ~PayloadOk(msg.payload)
       THEN /\ returned' = "discarded"
            /\ Goto("main", "loop")
            /\ UNCHANGED <<light_level, applyHistory>>
       ELSE IF msg.topic = TOPIC_BRIGHTNESS
       THEN /\ light_level' = IntValue(msg.payload)
            /\ repeat' = (prev # <<>> /\ prev[1].level = IntValue(msg.payload))
            /\ events' = <<>>
            /\ resolved' = <<>>
            /\ wrote' = FALSE
            /\ failed' = FALSE
            /\ returned' = "none"
            /\ Goto("main", "a_lock")
            /\ UNCHANGED <<taken, prev, swapped>>
       ELSE /\ returned' = "ignored"
            /\ Goto("main", "loop")
            /\ UNCHANGED <<light_level, applyHistory>>
    /\ msg' = NoMessage
    /\ published' = 0
    /\ UNCHANGED <<shared, configs, monitors, i, cfg, brightness_dst,
                   contrast_dst, changed, reloadLocals>>
    /\ UNCHANGED <<displays, pending, mapped>>

\* ---------------------------------------------------------- apply_settings

Event(op, mon, control, value) ==
    [op |-> op, mon |-> mon, control |-> control, value |-> value]

\* with _config_lock: (acquire)
ApplyLock ==
    /\ pc["main"] = "a_lock"
    /\ config_lock = "free"
    /\ config_lock' = "main"
    /\ Goto("main", "a_copy")
    /\ Quiet
    /\ UNCHANGED <<monitor_configs, last_values, connected, msg, applyLocals,
                   applyHistory, reloadLocals>>
    /\ UNCHANGED <<displays, pending, mapped>>

\* A copy that keeps the lock for the rest of apply_settings.
ApplyCopyHold ==
    /\ pc["main"] = "a_copy"
    /\ config_lock = "main"
    /\ configs' = monitor_configs
    /\ taken' = monitor_configs
    /\ swapped' = FALSE
    /\ Goto("main", "a_enum")
    /\ Quiet
    /\ UNCHANGED <<shared, msg, light_level, monitors, i, cfg, brightness_dst,
                   contrast_dst, changed, events, resolved, prev, repeat, wrote,
                   failed, reloadLocals, displays, pending, mapped>>

\* configs = list(monitor_configs); the with block ends (release)
ApplyCopy ==
    /\ pc["main"] = "a_copy"
    /\ config_lock = "main"
    /\ configs' = monitor_configs
    /\ taken' = monitor_configs
    /\ swapped' = FALSE
    /\ config_lock' = "free"
    /\ Goto("main", "a_enum")
    /\ Quiet
    /\ UNCHANGED <<monitor_configs, last_values, connected, msg, light_level,
                   monitors, i, cfg, brightness_dst, contrast_dst, changed,
                   events, resolved, prev, repeat, wrote, failed, reloadLocals>>
    /\ UNCHANGED <<displays, pending, mapped>>

\* monitors = get_monitors(): up to maxN monitors, or an exception, which
\* nothing in apply_settings or on_message catches.
ApplyEnumerate(maxN) ==
    /\ pc["main"] = "a_enum"
    /\ \/ \E n \in 0..maxN :
            /\ monitors' = n
            /\ repeat' = (repeat /\ prev # <<>> /\ prev[1].n = n)
            /\ i' = 0
            /\ Goto("main", "a_next")
            /\ returned' = "none"
       \/ /\ returned' = "raised"
          /\ Goto("main", "raised")
          /\ UNCHANGED <<monitors, repeat, i>>
    /\ prev' = <<>>
    /\ published' = 0
    /\ UNCHANGED <<shared, msg, light_level, configs, cfg, brightness_dst,
                   contrast_dst, changed, events, resolved, taken, swapped,
                   wrote, failed, reloadLocals>>
    /\ UNCHANGED <<displays, pending, mapped>>

\* A loop that reads the global snapshot again for every monitor.
SnapshotInUseGlobal == monitor_configs

\* The list the loop indexes: the copy taken under the lock.
SnapshotInUse == configs

\* A resolution that wraps around instead of reusing the last entry.
ResolveIndexWrap(idx, len) == idx % len

\* min(i, len(configs) - 1), the 0-based index of the configuration used.
ResolveIndex(idx, len) == Min2(idx, len - 1)

\* configs[min(i, len(configs) - 1)]: on an empty list the index is -1 and
\* the subscript raises IndexError.
ResolveOk(cs) == Len(cs) > 0

Resolve(cs, idx) == cs[ResolveIndex(idx, Len(cs)) + 1]

\* for i, monitor in enumerate(monitors): resolve cfg, compute both targets.
\* The IndexError of an empty list is outside the try block.
ApplyNext ==
    /\ pc["main"] = "a_next"
    /\ i < monitors
    /\ IF ResolveOk(SnapshotInUse)
       THEN LET c == Resolve(SnapshotInUse, i)
                b == Target(c.brightness, light_level)
                k == Target(c.contrast, light_level)
            IN  /\ cfg' = c
                /\ brightness_dst' = b
                /\ contrast_dst' = k
                /\ resolved' = Append(resolved,
                                 [cfg |-> c, brightness |-> b, contrast |-> k])
                /\ Goto("main", "a_open")
                /\ returned' = "none"
       ELSE /\ returned' = "raised"
            /\ Goto("main", "raised")
            /\ UNCHANGED <<cfg, brightness_dst, contrast_dst, resolved>>
    /\ events' = <<>>
    /\ published' = 0
    /\ UNCHANGED <<shared, msg, light_level, monitors, configs, i, changed,
                   taken, prev, repeat, swapped, wrote, failed, reloadLocals>>
    /\ UNCHANGED <<displays, pending, mapped>>

\* The loop is exhausted: apply_settings and on_message return; the locals go.
ApplyReturn ==
    /\ pc["main"] = "a_next"
    /\ i >= monitors
    /\ returned' = IF failed THEN "applied_with_failures" ELSE "applied"
    /\ prev' = IF ~failed /\ ~swapped
               THEN <<[level |-> light_level, n |-> monitors]>> ELSE <<>>
    /\ light_level' = 0
    /\ configs' = <<>>
    /\ monitors' = 0
    /\ i' = 0
    /\ cfg' = NoConfig
    /\ brightness_dst' = 0
    /\ contrast_dst' = 0
    /\ changed' = FALSE
    /\ events' = <<>>
    /\ resolved' = <<>>
    /\ taken' = <<>>
    /\ repeat' = FALSE
    /\ swapped' = FALSE
    /\ wrote' = FALSE
    /\ failed' = FALSE
    /\ published' = 0
    /\ Goto("main", "loop")
    /\ UNCHANGED <<shared, msg, reloadLocals>>
    /\ UNCHANGED <<displays, pending, mapped>>

\* with monitor: (the handle opens, or __enter__ raises); changed = False
ApplyOpen ==
    /\ pc["main"] = "a_open"
    /\ \/ /\ events' = Append(events, Event("open", i, "", 0))
          /\ handles' = handles \cup {i}
          /\ changed' = FALSE
          /\ Goto("main", "a_bri")
          /\ UNCHANGED failed
       \/ /\ events' = Append(events, Event("open_failed", i, "", 0))
          /\ failed' = TRUE
          /\ Goto("main", "a_except")
          /\ UNCHANGED <<changed, handles>>
    /\ Quiet
    /\ UNCHANGED <<shared, msg, light_level, monitors, configs, i, cfg,
                   brightness_dst, contrast_dst, resolved, taken, prev, repeat,
                   swapped, wrote, reloadLocals>>
    /\ UNCHANGED <<device, last_written, pending, mapped>>

\* A comparison that is always true: every control is written every time.
NeedsWriteAlways(cache, control, dst) == TRUE

\* last_values.get(control) != dst
NeedsWrite(cache, control, dst) == cache[control] # <<dst>>

\* The registers of display mon after value v is written to control.
DeviceWrite(dev, mon, control, v) ==
    LET old == IF mon \in DOMAIN dev THEN dev[mon] ELSE EmptyCache
    IN  (mon :> [old EXCEPT ![control] = <<v>>]) @@ dev

\* The write is made and the cache updated. The display's registers are
\* followed where track is set.
WriteDone(control, dst, next, track) ==
    /\ events' = Append(events, Event("write", i, control, dst))
    /\ last_values' = [last_values EXCEPT ![control] = <<dst>>]
    /\ last_written' = [last_written EXCEPT ![control] = <<dst>>]
    /\ device' = IF track THEN DeviceWrite(device, i, control, dst) ELSE device
    /\ changed' = TRUE
    /\ wrote' = TRUE
    /\ Goto("main", next)
    /\ UNCHANGED <<failed, handles>>

\* A write whose exception leaves the handle open (no with block).
WriteFailedLeak(control, dst) ==
    /\ events' = Append(events, Event("write_failed", i, control, dst))
    /\ wrote' = TRUE
    /\ failed' = TRUE
    /\ Goto("main", "a_except")
    /\ UNCHANGED <<last_values, changed, displays>>

\* The write raises: the exception leaves the with block (the handle closes)
\* for the except clause of this monitor's try.
WriteFailed(control, dst) ==
    /\ events' = events \o <<Event("write_failed", i, control, dst),
                             Event("close", i, "", 0)>>
    /\ handles' = handles \ {i}
    /\ wrote' = TRUE
    /\ failed' = TRUE
    /\ Goto("main", "a_except")
    /\ UNCHANGED <<last_values, changed, device, last_written>>

\* The cache already holds the target: no device write.
WriteSkipped(control, dst, next) ==
    /\ events' = Append(events, Event("skip", i, control, dst))
    /\ Goto("main", next)
    /\ UNCHANGED <<last_values, changed, wrote, failed, displays>>

\* if last_values.get("brightness") != brightness_dst:
\*     monitor.set_luminance(brightness_dst); cache it; changed = True
ApplyBrightness(track) ==
    /\ pc["main"] = "a_bri"
    /\ IF NeedsWrite(last_values, "brightness", brightness_dst)
       THEN \/ WriteDone("brightness", brightness_dst, "a_con", track)
            \/ WriteFailed("brightness", brightness_dst)
       ELSE WriteSkipped("brightness", brightness_dst, "a_con")
    /\ Quiet
    /\ UNCHANGED <<config_lock, monitor_configs, connected, msg, light_level,
                   monitors, configs, i, cfg, brightness_dst, contrast_dst,
                   resolved, taken, prev, repeat, swapped, reloadLocals>>
    /\ UNCHANGED <<pending, mapped>>

\* if last_values.get("contrast") != contrast_dst:
\*     monitor.set_contrast(contrast_dst); cache it; changed = True
ApplyContrast(track) ==
    /\ pc["main"] = "a_con"
    /\ IF NeedsWrite(last_values, "contrast", contrast_dst)
       THEN \/ WriteDone("contrast", contrast_dst, "a_close", track)
            \/ WriteFailed("contrast", contrast_dst)
       ELSE WriteSkipped("contrast", contrast_dst, "a_close")
    /\ Quiet
    /\ UNCHANGED <<config_lock, monitor_configs, connected, msg, light_level,
                   monitors, configs, i, cfg, brightness_dst, contrast_dst,
                   resolved, taken, prev, repeat, swapped, reloadLocals>>
    /\ UNCHANGED <<pending, mapped>>

\* The with block ends (the handle closes); if changed: log.info(...); next i.
ApplyClose ==
    /\ pc["main"] = "a_close"
    /\ events' = Append(events, Event("close", i, "", 0))
    /\ handles' = handles \ {i}
    /\ i' = i + 1
    /\ Goto("main", "a_next")
    /\ Quiet
    /\ UNCHANGED <<shared, msg, light_level, monitors, configs, cfg,
                   brightness_dst, contrast_dst, changed, resolved, taken, prev,
                   repeat, swapped, wrote, failed, reloadLocals>>
    /\ UNCHANGED <<device, last_written, pending, mapped>>

\* A handler that lets the monitor's exception leave apply_settings.
ApplyExceptReraise ==
    /\ pc["main"] = "a_except"
    /\ returned' = "raised"
    /\ published' = 0
    /\ Goto("main", "raised")
    /\ UNCHANGED <<shared, msg, applyLocals, applyHistory, reloadLocals>>
    /\ UNCHANGED <<displays, pending, mapped>>

\* except Exception: log.exception(...); the loop goes on with the next monitor.
ApplyExcept ==
    /\ pc["main"] = "a_except"
    /\ i' = i + 1
    /\ Goto("main", "a_next")
    /\ Quiet
    /\ UNCHANGED <<shared, msg, light_level, monitors, configs, cfg,
                   brightness_dst, contrast_dst, changed, applyHistory,
                   reloadLocals>>
    /\ UNCHANGED <<displays, pending, mapped>>

\* --------------------------------------------------------- specifications

\* The steps of apply_settings, with up to maxN monitors; track tells whether
\* the displays' registers are followed.
ApplySteps(maxN, track) ==
    \/ ApplyLock
    \/ ApplyCopy
    \/ ApplyEnumerate(maxN)
    \/ ApplyNext
    \/ ApplyReturn
    \/ ApplyOpen
    \/ ApplyBrightness(track)
    \/ ApplyContrast(track)
    \/ ApplyClose
    \/ ApplyExcept

\* The whole program: main() from its startup reload on, and the observer
\* thread, every step of one interleaving with every step of the other.
Next ==
    \/ \E t \in Threads : ReloadLoad(t, ConfigFiles)
    \/ \E t \in Threads : ReloadLock(t)
    \/ \E t \in Threads : ReloadSwap(t)
    \/ \E t \in Threads : ReloadPublish(t)
    \/ \E t \in Threads : ReloadExcept(t)
    \/ OnModified
    \/ Connect
    \/ StartObserver
    \/ OnConnect
    \/ OnDisconnect
    \/ Deliver(PayloadsInterleaved)
    \/ OnMessage
    \/ ApplySteps(MaxMonitorsInterleaved, FALSE)

Spec == Init /\ [][Next]_vars

\* The contents config.yaml takes under SpecWatch.
ConfigFilesWatch == {FileOne, FileEmptyList, FileUnreadable}

\* The payloads delivered under SpecWatch.
PayloadsWatch == {PayloadFifty, PayloadAbc}

\* The whole program as under Spec, with the notifications of config.yaml
\* counted from the moment the file changes to the moment the observer
\* thread takes them.
NextWatch ==
    \/ \E t \in Threads : ReloadLoad(t, ConfigFilesWatch)
    \/ \E t \in Threads : ReloadLock(t)
    \/ \E t \in Threads : ReloadSwap(t)
    \/ \E t \in Threads : ReloadPublish(t)
    \/ \E t \in Threads : ReloadExcept(t)
    \/ FileChanged
    \/ OnModifiedQueued
    \/ Connect
    \/ StartObserver
    \/ OnConnect
    \/ OnDisconnect
    \/ Deliver(PayloadsWatch)
    \/ OnMessage
    \/ ApplySteps(MaxMonitorsWatch, FALSE)

SpecWatch == Init /\ [][NextWatch]_vars

\* The event loop with the session up, after a startup whose load failed.
InitApply ==
    /\ pc = [main |-> "loop", watcher |-> "idle"]
    /\ config_lock = "free"
    /\ monitor_configs = <<>>
    /\ last_values = EmptyCache
    /\ connected = TRUE
    /\ new = [t \in Threads |-> <<>>]
    /\ msg = NoMessage
    /\ light_level = 0
    /\ configs = <<>>
    /\ monitors = 0
    /\ i = 0
    /\ cfg = NoConfig
    /\ brightness_dst = 0
    /\ contrast_dst = 0
    /\ changed = FALSE
    /\ events = <<>>
    /\ resolved = <<>>
    /\ taken = <<>>
    /\ prev = <<>>
    /\ repeat = FALSE
    /\ swapped = FALSE
    /\ wrote = FALSE
    /\ failed = FALSE
    /\ before = [t \in Threads |-> <<>>]
    /\ returned = "none"
    /\ published = 0
    /\ handles = {}
    /\ device = <<>>
    /\ last_written = EmptyCache
    /\ pending = 0
    /\ mapped = NoSweep

\* Messages of every payload and up to MaxMonitors monitors; each reload runs
\* to its end between two steps of the main thread.
NextApply ==
    \/ OnModifiedReload(ConfigFilesApply)
    \/ Deliver(Payloads)
    \/ OnMessage
    \/ ApplySteps(MaxMonitors, FALSE)

SpecApply == InitApply /\ [][NextApply]_vars

\* The ranges of the sweep: every min <= max up to MaxRangeValue, and the
\* linear ranges of the configurations above.
SweepRanges ==
    {<<lo, hi>> : lo \in 0..MaxRangeValue, hi \in 0..MaxRangeValue}
        \cup {<<RangeA.min, RangeA.max>>, <<RangeB.min, RangeB.max>>,
              <<RangeD.min, RangeD.max>>}

\* percent_to_monitor_value(min, max, 0, 1.0) for some range with min <= max.
InitMap ==
    /\ pc = [main |-> "loop", watcher |-> "idle"]
    /\ config_lock = "free"
    /\ monitor_configs = <<>>
    /\ last_values = EmptyCache
    /\ connected = TRUE
    /\ new = [t \in Threads |-> <<>>]
    /\ msg = NoMessage
    /\ light_level = 0
    /\ configs = <<>>
    /\ monitors = 0
    /\ i = 0
    /\ cfg = NoConfig
    /\ brightness_dst = 0
    /\ contrast_dst = 0
    /\ changed = FALSE
    /\ events = <<>>
    /\ resolved = <<>>
    /\ taken = <<>>
    /\ prev = <<>>
    /\ repeat = FALSE
    /\ swapped = FALSE
    /\ wrote = FALSE
    /\ failed = FALSE
    /\ before = [t \in Threads |-> <<>>]
    /\ returned = "none"
    /\ published = 0
    /\ handles = {}
    /\ device = <<>>
    /\ last_written = EmptyCache
    /\ pending = 0
    /\ \E r \in SweepRanges :
         /\ r[1] <= r[2]
         /\ \E v \in MapOutcomes(r[1], r[2], 0, 1) :
              mapped = [min |-> r[1], max |-> r[2], p |-> 0, value |-> v, below |-> v]

\* percent_to_monitor_value(min, max, p + 1, 1.0), after the call for p.
MapStep ==
    /\ mapped.p < 100
    /\ \E v \in MapOutcomes(mapped.min, mapped.max, mapped.p + 1, 1) :
         mapped' = [mapped EXCEPT !.p = mapped.p + 1, !.value = v,
                                  !.below = mapped.value]
    /\ UNCHANGED <<pc, shared, new, msg, applyLocals, applyHistory, before,
                   returned, published, displays, pending>>

NextMap == MapStep

\* The mapper alone, called with power 1.0 for each level from 0 to 100.
SpecMap == InitMap /\ [][NextMap]_vars

\* The contents config.yaml takes under SpecDevices.
ConfigFilesDevices == {FileOne, FileTwo}

\* The payloads delivered under SpecDevices.
PayloadsDevices == {PayloadFifty, PayloadZero}

\* The event loop as under SpecApply, with the registers of the displays
\* followed: display i is the i-th monitor get_monitors() returns, and it
\* holds what set_luminance and set_contrast last wrote to it.
NextDevices ==
    \/ OnModifiedReload(ConfigFilesDevices)
    \/ Deliver(PayloadsDevices)
    \/ OnMessage
    \/ ApplySteps(MaxMonitorsDevices, TRUE)

SpecDevices == InitApply /\ [][NextDevices]_vars

\* ------------------------------------------------------------ properties

InApplyLoop == pc["main"] \in {"a_next", "a_open", "a_bri", "a_con", "a_close", "a_except"}

\* The valid range of a control in the configuration resolved for monitor i.
RangeValid(control) == cfg[control].min <= cfg[control].max

InRange(control, v) == cfg[control].min <= v /\ v <= cfg[control].max

\* C1: when apply_settings is called a second time in succession with the
\* same level, the same snapshot and the same monitors, and nothing failed,
\* the second call invokes neither set_luminance nor set_contrast.
C1_SecondApplyWritesNothing ==
    (pc["main"] = "a_next" /\ i >= monitors /\ repeat /\ ~failed) => ~wrote

\* C2: with min <= max in the resolved range, every value handed to
\* set_luminance or set_contrast, and every value stored in the debounce
\* cache, lies in [min, max], for levels below 0 and above 100 too.
C2_WritesWithinRange ==
    InApplyLoop =>
        \A k \in 1..Len(events) :
            (events[k].op \in {"write", "write_failed"} /\ RangeValid(events[k].control))
                => /\ InRange(events[k].control, events[k].value)
                   /\ events[k].op = "write"
                        => last_values[events[k].control] = <<events[k].value>>

\* C2 witness: a level above 100 was written, clamped to the range's max.
C2_Witness ==
    /\ pc["main"] = "a_con"
    /\ light_level > 100
    /\ RangeValid("brightness")
    /\ cfg.brightness.min < cfg.brightness.max
    /\ \E k \in 1..Len(events) :
         /\ events[k].op = "write"
         /\ events[k].control = "brightness"
         /\ events[k].value = cfg.brightness.max

\* C3: a failure to open or write a monitor is caught: it never leaves
\* apply_settings, and the loop goes on, so that at every loop head each
\* earlier monitor has been resolved, computed and attempted.
C3_MonitorFailureIsolated ==
    /\ pc["main"] = "raised" => ~failed
    /\ pc["main"] = "a_next" => Len(resolved) = i
    /\ pc["main"] \in {"a_open", "a_bri", "a_con", "a_close", "a_except"}
          => Len(resolved) = i + 1

\* C3 witness: a monitor after a failed one has been opened.
C3_Witness ==
    /\ pc["main"] = "a_bri"
    /\ i >= 1
    /\ failed
    /\ \E k \in 1..Len(events) : events[k].op = "open" /\ events[k].mon = i

\* C4: when set_luminance raises on a monitor, set_contrast is still
\* attempted on that monitor in the same cycle whenever the contrast target
\* differs from the debounce cache.
C4_ContrastAttemptedAfterBrightnessFailure ==
    (/\ pc["main"] \in {"a_except", "a_next"}
     /\ \E k \in 1..Len(events) :
          events[k].op = "write_failed" /\ events[k].control = "brightness"
     /\ last_values.contrast # <<contrast_dst>>)
        => \E k \in 1..Len(events) :
             events[k].op \in {"write", "write_failed"} /\ events[k].control = "contrast"

\* C5: a reload_config whose load_config failed leaves monitor_configs as it
\* was when the call began, publishes no refresh request and returns.
C5_FailedReloadKeepsSnapshot ==
    [][\A t \in Threads :
         (pc[t] = "r_except" /\ pc'[t] # "r_except")
            => /\ monitor_configs = before[t]
               /\ monitor_configs' = before[t]
               /\ published' = 0
               /\ returned' = "reload_failed"
               /\ pc'[t] = AfterReload(t)]_vars

\* C5 witness: a reload failed while a loaded snapshot was installed.
C5_Witness ==
    /\ returned = "reload_failed"
    /\ pc["watcher"] = "idle"
    /\ monitor_configs # <<>>

\* C6: every monitor of one apply_settings call is resolved against the
\* snapshot that was installed when the call took its copy, whatever the
\* reloads that interleave with it.
C6_OneSnapshotPerApply ==
    pc["main"] \in AfterCopy =>
        /\ configs = taken
        /\ \A j \in 1..Len(resolved) :
             /\ Len(taken) > 0
             /\ resolved[j].cfg = taken[Min2(j - 1, Len(taken) - 1) + 1]

\* C6 witness: a reload installed another snapshot after the copy, and two
\* monitors have been resolved since.
C6_Witness ==
    /\ pc["main"] \in AfterCopy
    /\ swapped
    /\ monitor_configs # taken
    /\ Len(resolved) = 2

\* C7: with a non-empty snapshot of length L, monitor i is resolved to
\* snapshot[min(i, L-1)] and its targets are computed from that entry; more
\* monitors than configurations is not an error.
C7_FallbackResolution ==
    /\ InApplyLoop =>
         \A j \in 1..Len(resolved) :
            LET c == configs[Min2(j - 1, Len(configs) - 1) + 1]
            IN  /\ Len(configs) > 0
                /\ resolved[j].cfg = c
                /\ resolved[j].brightness = Target(c.brightness, light_level)
                /\ resolved[j].contrast = Target(c.contrast, light_level)
    /\ (pc["main"] = "raised" /\ Len(configs) > 0) => resolved = <<>>

\* C7 witness: two configurations, and the third monitor uses the second.
C7_Witness ==
    /\ InApplyLoop
    /\ Len(configs) = 2
    /\ Len(resolved) = 3
    /\ resolved[3].cfg = configs[2]
    /\ configs[2] # configs[1]

\* C8: no exception leaves on_message.
C8_NoExceptionLeavesOnMessage == pc["main"] # "raised"

\* The payloads of the model that are no textual integer: "abc", "", "50.0"
\* and bytes that are not UTF-8.
MalformedPayloads == {PayloadAbc, PayloadEmpty, PayloadFloat, PayloadBadUtf8}

\* C9: on a payload that is no textual integer on_message returns at once:
\* no enumeration, no device write, cache and snapshot unchanged.
C9_MalformedPayloadDiscarded ==
    [][(pc["main"] = "on_message" /\ msg.payload \in MalformedPayloads
          /\ pc'["main"] # "on_message")
         => /\ pc'["main"] = "loop"
            /\ returned' = "discarded"
            /\ published' = 0
            /\ UNCHANGED <<last_values, monitor_configs, monitors, events, wrote,
                           configs>>]_vars

\* C9 witness: a message has been discarded.
C9_Witness == returned = "discarded" /\ pc["main"] = "loop" /\ last_values # EmptyCache

\* C10: after a reload_config whose load_config succeeded, the installed
\* snapshot is not empty.
C10_LoadedSnapshotNonEmpty == returned = "reload_ok" => monitor_configs # <<>>

\* C11: an accepted connection (reason code 0) publishes exactly one refresh
\* request and a rejected one none; a reload_config that installed a snapshot
\* publishes exactly one if the client is connected and none otherwise; a
\* reload_config whose load failed publishes none.
C11_RefreshPublication ==
    [][/\ returned' = "connected" => published' = 1
       /\ returned' = "rejected" => published' = 0
       /\ returned' = "reload_ok" => published' = (IF connected THEN 1 ELSE 0)
       /\ returned' = "reload_failed" => published' = 0]_vars

\* C11 witness: the observer's reload installed a snapshot while the session
\* was up and published its refresh request.
C11_Witness ==
    /\ returned = "reload_ok"
    /\ published = 1
    /\ connected
    /\ pc["watcher"] = "idle"

\* C12: with power 1.0 and integers min <= max, percent_to_monitor_value is
\* non-decreasing in the level over 0..100, returns min at level 0 and max
\* at level 100.
C12_LinearMappingMonotone ==
    /\ mapped.below <= mapped.value
    /\ mapped.p = 0 => mapped.value = mapped.min
    /\ mapped.p = 100 => mapped.value = mapped.max

\* C12 witness: a sweep over a range of more than one value reached level 100
\* and its max.
C12_Witness ==
    /\ mapped.p = 100
    /\ mapped.min < mapped.max
    /\ mapped.below < mapped.value
    /\ mapped.value = mapped.max

\* The device operation a step of apply_settings adds first to events.
Attempt == events'[Len(events) + 1]

\* C13: a message "50" on the brightness topic makes the level 50 and "0"
\* the level 0; with an empty cache entry, a monitor whose brightness range
\* is 3..100 (power 1.0) is written brightness 52 at level 50 (51.5 rounds to
\* the even neighbour), and a monitor whose contrast range is 60..92
\* (power 1.0) is written contrast 60 at level 0.
C13_EndToEndValue ==
    [][/\ (pc["main"] = "on_message" /\ pc'["main"] # "on_message"
             /\ msg.topic = TOPIC_BRIGHTNESS
             /\ msg.payload \in {PayloadFifty, PayloadZero})
            => /\ pc'["main"] = "a_lock"
               /\ light_level' = (IF msg.payload = PayloadFifty THEN 50 ELSE 0)
       /\ (pc["main"] = "a_bri" /\ pc'["main"] # "a_bri" /\ light_level = 50
             /\ cfg.brightness = ValueRange(3, 100, 1)
             /\ last_values.brightness = <<>>)
            => /\ Attempt.op \in {"write", "write_failed"}
               /\ Attempt.control = "brightness"
               /\ Attempt.value = 52
               /\ Attempt.op = "write" => last_values'.brightness = <<52>>
       /\ (pc["main"] = "a_con" /\ pc'["main"] # "a_con" /\ light_level = 0
             /\ cfg.contrast = ValueRange(60, 92, 1)
             /\ last_values.contrast = <<>>)
            => /\ Attempt.op \in {"write", "write_failed"}
               /\ Attempt.control = "contrast"
               /\ Attempt.value = 60
               /\ Attempt.op = "write" => last_values'.contrast = <<60>>]_vars

\* C13 witness: one monitor, level 50, and 52 is the first value the cache
\* ever took.
C13_Witness ==
    /\ pc["main"] = "a_con"
    /\ monitors = 1
    /\ light_level = 50
    /\ cfg.brightness = ValueRange(3, 100, 1)
    /\ last_values = [brightness |-> <<52>>, contrast |-> <<>>]
    /\ \E k \in 1..Len(events) :
         events[k] = Event("write", 0, "brightness", 52)

\* What the step that decides control (at the control point at) must do.
DebounceRule(at, control, dst) ==
    (pc["main"] = at /\ pc'["main"] # at) =>
        /\ Attempt.control = control
        /\ Attempt.value = dst
        /\ Attempt.op \in {"write", "write_failed"} <=> last_values[control] # <<dst>>
        /\ Attempt.op = "skip" <=> last_values[control] = <<dst>>
        /\ Attempt.op = "write" => last_values'[control] = <<dst>>
        /\ Attempt.op \in {"write_failed", "skip"} => last_values' = last_values

\* C14: a control is written to a monitor exactly when its computed value
\* differs from the control's cache entry at that moment; a successful write
\* leaves the entry equal to the value written, a write that raises leaves
\* the cache as it was; so each entry is always absent or equal to the last
\* value successfully written for that control on any monitor.
C14_DebounceRule ==
    /\ [](last_values = last_written)
    /\ [][/\ DebounceRule("a_bri", "brightness", brightness_dst)
          /\ DebounceRule("a_con", "contrast", contrast_dst)]_vars

\* C14 witness: a contrast write was skipped on the second monitor after a
\* brightness write, the cache holding the values last written.
C14_Witness ==
    /\ pc["main"] = "a_close"
    /\ i = 1
    /\ last_values = [brightness |-> <<brightness_dst>>, contrast |-> <<contrast_dst>>]
    /\ \E k \in 1..Len(events) : events[k].op = "write" /\ events[k].control = "brightness"
    /\ \E k \in 1..Len(events) : events[k].op = "skip" /\ events[k].control = "contrast"

\* Display mon holds value v in control.
DeviceHolds(mon, control, v) == mon \in DOMAIN device /\ device[mon][control] = <<v>>

\* C15: whenever apply_settings skips the write of a control on a monitor,
\* that monitor's display already holds the computed value; and when a call
\* has gone through all monitors without a failure, every attached display
\* holds the brightness and contrast computed for it.
C15_DebounceOnlySuppressesRedundantWrites ==
    /\ InApplyLoop =>
         \A k \in 1..Len(events) :
            events[k].op = "skip"
                => DeviceHolds(events[k].mon, events[k].control, events[k].value)
    /\ (pc["main"] = "a_next" /\ i >= monitors /\ ~failed) =>
         \A j \in 1..Len(resolved) :
            /\ DeviceHolds(j - 1, "brightness", resolved[j].brightness)
            /\ DeviceHolds(j - 1, "contrast", resolved[j].contrast)

\* C16: every ValueRange of every installed snapshot has max >= min and
\* power > 0.
C16_InstalledRangesValid ==
    \A k \in 1..Len(monitor_configs) :
        \A control \in {"brightness", "contrast"} :
            /\ monitor_configs[k][control].max >= monitor_configs[k][control].min
            /\ monitor_configs[k][control].power > 0

\* C17: at most one monitor handle is open at any time; it is the handle of
\* the monitor being written, open from the with statement to the end of its
\* block; at the loop head, in the except clause, and after apply_settings
\* has returned or raised, no handle is open.
C17_ScopedHandles ==
    /\ Cardinality(handles) <= 1
    /\ pc["main"] \in {"a_bri", "a_con", "a_close"} => handles = {i}
    /\ pc["main"] \notin {"a_bri", "a_con", "a_close"} => handles = {}

\* C17 witness: a write on the second monitor raised, and its handle is
\* closed in the except clause.
C17_Witness ==
    /\ pc["main"] = "a_except"
    /\ i = 1
    /\ handles = {}
    /\ \E k \in 1..Len(events) : events[k].op = "write_failed"

\* The control points of reload_config.
ReloadPoints == {"r_load", "r_lock", "r_swap", "r_pub", "r_except"}

\* C18: no step of reload_config, on either thread and whether the load
\* succeeded or failed, changes the debounce cache, enumerates the displays,
\* opens a handle or writes to a display; the cache changes only in a step
\* of the main thread that decides a control in apply_settings.
C18_ReloadFrame ==
    [][/\ \A t \in Threads :
            (pc[t] \in ReloadPoints /\ pc'[t] # pc[t])
                => UNCHANGED <<last_values, last_written, handles, device,
                               monitors, events, wrote>>
       /\ last_values' # last_values
            => /\ pc["main"] \in {"a_bri", "a_con"}
               /\ pc'["main"] # pc["main"]
               /\ UNCHANGED monitor_configs]_vars

\* C18 witness: the observer's reload returned while apply_settings was
\* between the two writes of a monitor, the cache already filled.
C18_Witness ==
    /\ returned = "reload_ok"
    /\ pc["watcher"] = "idle"
    /\ pc["main"] = "a_con"
    /\ last_values.brightness = <<brightness_dst>>
    /\ swapped

\* Where thread t is when it holds _config_lock: at the swap of
\* reload_config, or (the main thread) at the copy of apply_settings.
LockPoints(t) == IF t = "main" THEN {"r_swap", "a_copy"} ELSE {"r_swap"}

\* C19: _config_lock is held only for the swap of reload_config and the copy
\* of apply_settings, never while displays are enumerated or written or a
\* refresh request is published.  So a reload that waits for the lock while
\* apply_settings is past its copy finds it free, apply_settings past its
\* copy has a step to take while a reload holds the lock, and whoever holds
\* the lock can release it: no interleaving deadlocks.
C19_LockScope ==
    /\ config_lock \in {"free"} \cup Threads
    /\ \A t \in Threads : config_lock = t <=> pc[t] \in LockPoints(t)
    /\ \A t \in Threads :
         (pc["main"] \in AfterCopy /\ pc[t] = "r_lock") => ENABLED ReloadLock(t)
    /\ (pc["main"] \in AfterCopy /\ config_lock # "free")
         => ENABLED ApplySteps(MaxMonitorsInterleaved, FALSE)
    /\ (Alive /\ config_lock = "main" /\ pc["main"] = "a_copy") => ENABLED ApplyCopy
    /\ \A t \in Threads :
         (Alive /\ config_lock = t /\ pc[t] = "r_swap") => ENABLED ReloadSwap(t)

\* C19 witness: the observer's reload waits for the lock while apply_settings
\* holds it for the copy.
C19_Witness ==
    /\ pc["main"] = "a_copy"
    /\ pc["watcher"] = "r_lock"
    /\ config_lock = "main"

\* C20: at most one reload_config runs at any time; the observer takes a
\* notification only when it is idle, so one that arrives during a reload is
\* handled after it; the startup reload is over before the observer runs;
\* and a notification that waits, or a reload it has started, is never left
\* behind: the process is still running, so the reload can return to idle.
C20_SerializedReloads ==
    /\ Cardinality({t \in Threads : pc[t] \in ReloadPoints}) <= 1
    /\ pc["watcher"] # "off" => pc["main"] \notin ReloadPoints
    /\ pending > 0 => pc["watcher"] # "off"
    /\ (pending > 0 \/ pc["watcher"] \in ReloadPoints) => Alive

====
